---- MODULE Spec2Model ----
(***************************************************************************)
(* Persona routing and escalation state machine of k12_demo.py: the        *)
(* /chat, /switch_spark, /reset and /admin handlers acting on the          *)
(* cookie-backed Flask session of each client.                             *)
(*                                                                         *)
(* Text is modelled as a sequence of tokens.  User messages and trigger    *)
(* keywords are sequences of one-character tokens, so that str.lower()     *)
(* and the substring test `trigger in message_lower` are computed as the   *)
(* code computes them.  Replies, anchor phrases and persona names are      *)
(* sequences of word tokens (the dash that opens a signature is a token    *)
(* of its own, written "--" for the en dash), so that str.endswith() is a  *)
(* real suffix test.                                                       *)
(***************************************************************************)
EXTENDS Integers, Sequences, FiniteSets, TLC

\* ------------------------------------------------------------------ bounds
MaxTurns == 2      \* /chat turns completed in a run
MaxIds   == 2      \* session identifiers generated (session lifetimes)
MaxLen   == 3      \* length of the enumerated messages of SpecEval
MaxLongTurns == 5  \* /chat turns completed in a run of SpecLong
MaxAnchorTurns == 2  \* /chat turns completed in a run of SpecAnchor
MaxRaceTurns == 3  \* /chat turns completed in a run of SpecRace

\* ------------------------------------------------------- string primitives
UpperChars == <<"A","B","C","D","E","F","G","H","I","J","K","L","M",
                "N","O","P","Q","R","S","T","U","V","W","X","Y","Z">>
LowerChars == <<"a","b","c","d","e","f","g","h","i","j","k","l","m",
                "n","o","p","q","r","s","t","u","v","w","x","y","z">>

\* str.lower() on one character
lower_char(c) ==
    IF \E i \in 1..Len(UpperChars) : UpperChars[i] = c
    THEN LowerChars[CHOOSE i \in 1..Len(UpperChars) : UpperChars[i] = c]
    ELSE c

\* str.lower()
lower(s) == [i \in 1..Len(s) |-> lower_char(s[i])]

\* Python `sub in s` on strings
str_in(sub, s) ==
    \E i \in 0..(Len(s) - Len(sub)) :
        \A j \in 1..Len(sub) : s[i + j] = sub[j]

\* str.endswith()
endswith(s, suffix) ==
    /\ Len(suffix) <= Len(s)
    /\ \A j \in 1..Len(suffix) : s[Len(s) - Len(suffix) + j] = suffix[j]

\* variant: the slice seq[:n]
first_n(seq, n) ==
    IF Len(seq) <= n THEN seq
    ELSE [i \in 1..n |-> seq[i]]

\* Python slice seq[-n:]
last_n(seq, n) ==
    IF Len(seq) <= n THEN seq
    ELSE [i \in 1..n |-> seq[Len(seq) - n + i]]

\* dict.get(key, default)
dict_get(d, key, default) == IF key \in DOMAIN d THEN d[key] ELSE default

\* the empty dict
EmptyDict == [x \in {} |-> 0]

\* ------------------------------------------------------- persona registry
SageAnchor ==
    <<"You're","learning","and","growing","every","day.",
      "Keep","wondering!","--","Sage">>
GuardianAnchor ==
    <<"Your","safety","matters.","Your","feelings","are","valid.",
      "Help","is","always","available.","--","Guardian">>
TeacherAnchor ==
    <<"Organization","complete.","Teaching","time","maximized.",
      "Administrative","burden","minimized.","--","Teacher","Admin">>

SafetyTriggers ==
    << <<"h","u","r","t">>,
       <<"s","c","a","r","e","d">>,
       <<"h","i","t">>,
       <<"y","e","l","l">>,
       <<"a","n","g","r","y">>,
       <<"s","a","d">>,
       <<"f","a","m","i","l","y"," ","p","r","o","b","l","e","m","s">>,
       <<"d","o","n","'","t"," ","t","e","l","l">> >>

SPARKS ==
    [ sage_elementary |->
        [ name |-> <<"Sage","Neighborhood">>,
          role |-> <<"You are Sage Neighborhood, an elementary tutor ...">>,
          safety_triggers |-> SafetyTriggers,
          anchor_phrase |-> SageAnchor ],
      guardian |->
        [ name |-> <<"Guardian">>,
          role |-> <<"You are Guardian, a school counselor ...">>,
          anchor_phrase |-> GuardianAnchor ],
      teacher_admin |->
        [ name |-> <<"Teacher","Admin">>,
          role |-> <<"You are Teacher Admin, an efficient administrative assistant ...">>,
          anchor_phrase |-> TeacherAnchor ] ]

SparkIds == DOMAIN SPARKS

\* ------------------------------------------------------- safety evaluator
RECURSIVE trigger_loop(_, _, _)
\* the for loop of check_safety_triggers, from index i on
trigger_loop(safety_triggers, message_lower, i) ==
    IF i > Len(safety_triggers) THEN FALSE
    ELSE IF str_in(safety_triggers[i], message_lower) THEN TRUE
    ELSE trigger_loop(safety_triggers, message_lower, i + 1)

\* variant: the loop returns after looking at the first keyword only
check_first_trigger_only(message, current_spark) ==
    IF current_spark = "guardian" THEN FALSE
    ELSE str_in(SPARKS["sage_elementary"].safety_triggers[1], lower(message))

\* variant: a Guardian session is evaluated for triggers like any other
check_without_guardian_guard(message, current_spark) ==
    trigger_loop(SPARKS["sage_elementary"].safety_triggers, lower(message), 1)

\* variant: only the tutor's sessions are evaluated for triggers
check_only_for_tutor(message, current_spark) ==
    IF current_spark # "sage_elementary" THEN FALSE
    ELSE trigger_loop(SPARKS["sage_elementary"].safety_triggers,
                      lower(message), 1)

\* variant: the message is matched as typed, without lower()
check_case_sensitive(message, current_spark) ==
    IF current_spark = "guardian" THEN FALSE
    ELSE trigger_loop(SPARKS["sage_elementary"].safety_triggers, message, 1)

check_safety_triggers(message, current_spark) ==
    IF current_spark = "guardian" THEN FALSE
    ELSE trigger_loop(SPARKS["sage_elementary"].safety_triggers,
                      lower(message), 1)

\* ------------------------------------------------------ completion gateway
HistoryWindow == 6

\* the request sent to the generation service
build_messages(spark, user_message, conversation_history) ==
    << [role |-> "system", content |-> spark.role] >>
      \o last_n(conversation_history, HistoryWindow)
      \o << [role |-> "user", content |-> user_message] >>

\* variant: the anchor phrase is appended without looking at the text
add_anchor_always(ai_response, spark) ==
    ai_response \o <<"\n\n">> \o spark.anchor_phrase

\* the anchor step applied to the generated text
add_anchor(ai_response, spark) ==
    IF ~endswith(ai_response, spark.anchor_phrase)
    THEN ai_response \o <<"\n\n">> \o spark.anchor_phrase
    ELSE ai_response

\* variant: the fallback sentence is left unsigned
fallback_reply_unsigned(spark) ==
    <<"I'm","having","trouble","connecting","right","now.",
      "Let","me","try","again.">>

\* the reply of the except branch
fallback_reply(spark) ==
    <<"I'm","having","trouble","connecting","right","now.",
      "Let","me","try","again.","--">> \o spark.name

\* variant: a failed call is made once more before the fallback is returned
get_ai_response_retrying(spark_name, user_message, conversation_history, outcome) ==
    IF spark_name \notin DOMAIN SPARKS
    THEN [raised |-> TRUE, called |-> FALSE, attempts |-> 0]
    ELSE LET spark == SPARKS[spark_name]
             messages == build_messages(spark, user_message,
                                        conversation_history)
         IN  [ raised   |-> FALSE,
               called   |-> TRUE,
               attempts |-> IF outcome.ok THEN 1 ELSE 2,
               messages |-> messages,
               value    |-> IF outcome.ok
                            THEN add_anchor(outcome.text, spark)
                            ELSE fallback_reply(spark) ]

\* outcome: what client.chat.completions.create does, either
\* [ok |-> TRUE, text |-> content.strip()] or [ok |-> FALSE] (any exception);
\* attempts counts the times the function invokes create
get_ai_response(spark_name, user_message, conversation_history, outcome) ==
    IF spark_name \notin DOMAIN SPARKS
    THEN [raised |-> TRUE, called |-> FALSE,          \* KeyError, line 104
          attempts |-> 0]
    ELSE LET spark == SPARKS[spark_name]
             messages == build_messages(spark, user_message,
                                        conversation_history)
         IN  [ raised   |-> FALSE,
               called   |-> TRUE,
               attempts |-> 1,
               messages |-> messages,
               value    |-> IF outcome.ok
                            THEN add_anchor(outcome.text, spark)
                            ELSE fallback_reply(spark) ]

\* --------------------------------------------------------- session manager
\* variant: the session is initialised on every access
get_session_data_always_init(sess, id, ts) ==
    [ f \in DOMAIN sess \cup {"session_id", "current_spark",
        "conversation_history", "safety_alerts", "session_start"} |->
      CASE f = "session_id"           -> id
        [] f = "current_spark"        -> "sage_elementary"
        [] f = "conversation_history" -> <<>>
        [] f = "safety_alerts"        -> <<>>
        [] f = "session_start"        -> ts
        [] OTHER                      -> sess[f] ]

\* the Flask session after get_session_data; id is the generated uuid,
\* ts the reading of datetime.now()
get_session_data(sess, id, ts) ==
    IF "session_id" \notin DOMAIN sess
    THEN [ f \in DOMAIN sess \cup {"session_id", "current_spark",
             "conversation_history", "safety_alerts", "session_start"} |->
           CASE f = "session_id"           -> id
             [] f = "current_spark"        -> "sage_elementary"
             [] f = "conversation_history" -> <<>>
             [] f = "safety_alerts"        -> <<>>
             [] f = "session_start"        -> ts
             [] OTHER                      -> sess[f] ]
    ELSE sess

\* session[key] = value
set_item(sess, key, value) ==
    [ f \in DOMAIN sess \cup {key} |-> IF f = key THEN value ELSE sess[f] ]

\* variant: the session is routed but no alert is recorded
route_without_record(sess, user_message, ts) ==
    set_item(sess, "current_spark", "guardian")

\* variant: the new alert replaces the alert log
route_overwriting_log(sess, user_message, ts) ==
    LET s1 == set_item(sess, "current_spark", "guardian")
    IN  set_item(s1, "safety_alerts",
                 << [ timestamp |-> ts,
                      trigger   |-> user_message,
                      action    |-> "Routed to Guardian" ] >>)

\* lines 710-715 of chat: route the session to Guardian
route_to_guardian(sess, user_message, ts) ==
    LET s1 == set_item(sess, "current_spark", "guardian")
    IN  set_item(s1, "safety_alerts",
                 Append(s1["safety_alerts"],
                        [ timestamp |-> ts,
                          trigger   |-> user_message,
                          action    |-> "Routed to Guardian" ]))

\* variant: only the user's message is recorded
record_turn_user_only(conversation_history, user_message, ai_response) ==
    Append(conversation_history, [role |-> "user", content |-> user_message])

\* variant: a turn answered by the fallback sentence is not recorded
record_turn_skipping_fallback(conversation_history, user_message, ai_response) ==
    IF \E p \in SparkIds : ai_response = fallback_reply(SPARKS[p])
    THEN conversation_history
    ELSE Append(Append(conversation_history,
                       [role |-> "user", content |-> user_message]),
                [role |-> "assistant", content |-> ai_response])

\* variant: the reply is recorded before the message it answers
record_turn_reply_first(conversation_history, user_message, ai_response) ==
    Append(Append(conversation_history,
                  [role |-> "assistant", content |-> ai_response]),
           [role |-> "user", content |-> user_message])

\* lines 722-723 of chat
record_turn(conversation_history, user_message, ai_response) ==
    Append(Append(conversation_history,
                  [role |-> "user", content |-> user_message]),
           [role |-> "assistant", content |-> ai_response])

RoutingNotice ==
    <<"I can see you have some big feelings right now. Let me connect you with Guardian, who is really good at helping with feelings.">>

\* variant: the local current_spark is not updated after routing
spark_for_turn_stale(escalate, current_spark) == current_spark

\* the persona that handles the turn (line 716)
spark_for_turn(escalate, current_spark) ==
    IF escalate THEN "guardian" ELSE current_spark

\* the /chat handler: session before, request JSON, generation outcome,
\* uuid and clock in; session after, response and clock out.  The clock is
\* logical: every datetime.now() reads it and advances it by one.
chat_handler(sess, data, outcome, id, clock) ==
    LET user_message == dict_get(data, "message", <<>>)
        created == "session_id" \notin DOMAIN sess
        s0 == get_session_data(sess, id, clock)
        clock0 == IF created THEN clock + 1 ELSE clock
        escalate == check_safety_triggers(user_message, s0["current_spark"])
        s1 == IF escalate THEN route_to_guardian(s0, user_message, clock0)
              ELSE s0
        clock1 == IF escalate THEN clock0 + 1 ELSE clock0
        current_spark == spark_for_turn(escalate, s0["current_spark"])
        ai == get_ai_response(current_spark, user_message,
                              s0["conversation_history"], outcome)
    IN  IF ai.raised
        THEN [ session |-> s1, session_data |-> s0, ai |-> ai,
               clock |-> clock1, completed |-> FALSE,
               response |-> [status |-> 500] ]
        ELSE [ session |->
                 set_item(s1, "conversation_history",
                          record_turn(s0["conversation_history"],
                                      user_message, ai.value)),
               session_data |-> s0, ai |-> ai,
               clock |-> clock1, completed |-> TRUE,
               response |->
                 [ status           |-> 200,
                   response         |-> ai.value,
                   current_spark    |-> current_spark,
                   routing_occurred |-> escalate,
                   routing_message  |-> IF escalate THEN RoutingNotice
                                        ELSE <<>>,
                   safety_alerts    |-> Len(s1["safety_alerts"]) ] ]

\* variant: an explicit switch to Guardian is logged like an escalation
switch_spark_logging(sess, data) ==
    LET new_spark == dict_get(data, "spark", "sage_elementary")
        s1 == set_item(sess, "current_spark", new_spark)
    IN  [ session  |-> IF new_spark = "guardian"
                       THEN set_item(s1, "safety_alerts",
                              Append(dict_get(sess, "safety_alerts", <<>>),
                                     [ timestamp |-> 0, trigger |-> <<>>,
                                       action |-> "Routed to Guardian" ]))
                       ELSE s1,
          response |-> [ status |-> 200, current_spark |-> new_spark ] ]

\* the /switch_spark handler
switch_spark_handler(sess, data) ==
    LET new_spark == dict_get(data, "spark", "sage_elementary")
    IN  [ session  |-> set_item(sess, "current_spark", new_spark),
          response |-> [ status |-> 200, current_spark |-> new_spark ] ]

\* variant: only the conversation is cleared
reset_history_only(sess) ==
    [ session |-> IF "conversation_history" \in DOMAIN sess
                  THEN set_item(sess, "conversation_history", <<>>)
                  ELSE sess,
      response |-> [status |-> 200, success |-> TRUE] ]

\* the /reset handler: session.clear()
reset_chat_handler(sess) ==
    [ session |-> EmptyDict, response |-> [status |-> 200, success |-> TRUE] ]

\* the /admin handler
admin_handler(sess, id, clock) ==
    LET s0 == get_session_data(sess, id, clock)
    IN  [ session |-> s0, session_data |-> s0,
          clock |-> IF "session_id" \notin DOMAIN sess THEN clock + 1
                    ELSE clock,
          response |->
            [ status |-> 200,
              session_id |-> s0["session_id"],
              current_spark |-> s0["current_spark"],
              safety_alerts |-> s0["safety_alerts"],
              conversation_length |-> Len(s0["conversation_history"]),
              session_start |-> s0["session_start"] ] ]

\* ------------------------------------------------------------ environment
AllKeys  == {"A", "B"}   \* session keys (one cookie jar per client)
SpecKeys == {"A"}        \* the clients that send requests under Spec

MsgAdd     == <<"a","d","d">>
MsgHitWall == <<"I"," ","h","i","t"," ","a"," ","w","a","l","l">>
MsgSadDay  == <<"S","A","D"," ","d","a","y">>

\* request bodies of /chat; the empty dict is a body without "message"
ChatData == { EmptyDict, [message |-> MsgAdd], [message |-> MsgHitWall] }

\* request bodies of /switch_spark; the empty dict is a body without "spark"
SwitchData == { EmptyDict, [spark |-> "sage_elementary"],
                [spark |-> "guardian"], [spark |-> "teacher_admin"],
                [spark |-> "bogus"] }

PlainText == <<"What","do","you","notice?">>

\* what the generation service returns (after strip) or that it failed
Outcomes == { [ok |-> FALSE], [ok |-> TRUE, text |-> PlainText] }

\* ------------------------------------------------------------------ state
VARIABLES
    session,   \* session[k]: the Flask session (cookie) of client k, a dict
    nextId,    \* the next uuid4 to be generated
    now,       \* the clock read by datetime.now()
    turns,     \* turns[k]: /chat turns completed since session k was created
    retired,   \* retired[k]: session ids of k discarded by /reset
    discarded, \* discarded[k]: what the latest /reset of k discarded, while
               \* no /chat or /admin request of k has followed it
    spent,     \* /chat turns completed so far, over all sessions
    routings,  \* routings[k]: /chat turns that routed session k to Guardian
               \* since session k was created
    inflight,  \* inflight[r]: the /chat request r of SpecRace that the client
               \* has sent, from the sending to the arrival of its response
    last       \* the last request handled and what its handler did

vars == <<session, nextId, now, turns, retired, discarded, spent, routings,
          inflight, last>>

NotPending == [pending |-> FALSE]

\* the /chat requests that may be in flight at the same time
Requests == {1, 2}

Idle == [stage |-> "idle"]

\* what a /reset of session sess discards, as far as the properties need it
Summary(sess) ==
    [ pending     |-> TRUE,
      had_id      |-> "session_id" \in DOMAIN sess,
      in_crisis   |-> dict_get(sess, "current_spark", "absent") = "guardian",
      escalations |-> Len(dict_get(sess, "safety_alerts", <<>>)) ]

Init ==
    /\ session = [k \in AllKeys |-> EmptyDict]
    /\ nextId = 1
    /\ now = 0
    /\ turns = [k \in AllKeys |-> 0]
    /\ retired = [k \in AllKeys |-> {}]
    /\ discarded = [k \in AllKeys |-> NotPending]
    /\ spent = 0
    /\ routings = [k \in AllKeys |-> 0]
    /\ inflight = [r \in Requests |-> Idle]
    /\ last = [op |-> "none"]

HasSession(sess) == "session_id" \in DOMAIN sess

\* the handler generates a uuid exactly when the session has no session_id
Creates(k) == ~HasSession(session[k])

\* variant: the session lives in one process-wide dict shared by all clients
save_session_global(sessions, k, sess) == [j \in DOMAIN sessions |-> sess]

\* the response sets the cookie of client k to the session the handler left
save_session(sessions, k, sess) == [sessions EXCEPT ![k] = sess]

\* a /chat request of client k, with a body of datas and the generation
\* service behaving as one of outcomes, while fewer than maxTurns turns are
\* completed
ChatWith(k, datas, outcomes, maxTurns) ==
    /\ Creates(k) => nextId <= MaxIds
    /\ spent < maxTurns
    /\ \E data \in datas, outcome \in outcomes :
         LET out == chat_handler(session[k], data, outcome, nextId, now)
         IN  /\ session' = save_session(session, k, out.session)
             /\ nextId' = IF Creates(k) THEN nextId + 1 ELSE nextId
             /\ turns' = [turns EXCEPT ![k] =
                            (IF Creates(k) THEN 0 ELSE @)
                            + (IF out.completed THEN 1 ELSE 0)]
             /\ spent' = spent + (IF out.completed THEN 1 ELSE 0)
             /\ routings' = [routings EXCEPT ![k] =
                               (IF Creates(k) THEN 0 ELSE @)
                               + (IF out.completed
                                     /\ out.response.routing_occurred
                                  THEN 1 ELSE 0)]
             /\ now' = out.clock
             /\ last' = [ op |-> "chat", key |-> k, data |-> data,
                          outcome |-> outcome, pre |-> session[k],
                          before |-> session,
                          after_reset |-> discarded[k], out |-> out ]
    /\ discarded' = [discarded EXCEPT ![k] = NotPending]
    /\ UNCHANGED <<retired, inflight>>

Chat(k) == ChatWith(k, ChatData, Outcomes, MaxTurns)

\* a /switch_spark request of client k with a body of datas
SwitchSparkWith(k, datas) ==
    /\ \E data \in datas :
         LET out == switch_spark_handler(session[k], data)
         IN  /\ session' = save_session(session, k, out.session)
             /\ last' = [ op |-> "switch", key |-> k, data |-> data,
                          pre |-> session[k], before |-> session,
                          out |-> out ]
    /\ UNCHANGED <<nextId, now, turns, retired, discarded, spent, routings,
                   inflight>>

SwitchSpark(k) == SwitchSparkWith(k, SwitchData)

ResetChat(k) ==
    /\ LET out == reset_chat_handler(session[k])
       IN  /\ session' = save_session(session, k, out.session)
           /\ last' = [ op |-> "reset", key |-> k, pre |-> session[k],
                        before |-> session, out |-> out ]
    /\ retired' = [retired EXCEPT ![k] =
                     IF HasSession(session[k])
                     THEN @ \cup {session[k]["session_id"]} ELSE @]
    /\ discarded' = [discarded EXCEPT ![k] = Summary(session[k])]
    /\ UNCHANGED <<nextId, now, turns, spent, routings, inflight>>

Admin(k) ==
    /\ Creates(k) => nextId <= MaxIds
    /\ LET out == admin_handler(session[k], nextId, now)
       IN  /\ session' = save_session(session, k, out.session)
           /\ now' = out.clock
           /\ last' = [ op |-> "admin", key |-> k, pre |-> session[k],
                        before |-> session,
                        after_reset |-> discarded[k], out |-> out ]
    /\ nextId' = IF Creates(k) THEN nextId + 1 ELSE nextId
    /\ turns' = [turns EXCEPT ![k] = IF Creates(k) THEN 0 ELSE @]
    /\ routings' = [routings EXCEPT ![k] = IF Creates(k) THEN 0 ELSE @]
    /\ discarded' = [discarded EXCEPT ![k] = NotPending]
    /\ UNCHANGED <<retired, spent, inflight>>

Next ==
    \/ \E k \in SpecKeys : Chat(k)
    \/ \E k \in SpecKeys : SwitchSpark(k)
    \/ \E k \in SpecKeys : ResetChat(k)
    \/ \E k \in SpecKeys : Admin(k)

Spec == Init /\ [][Next]_vars

\* two clients, each with its own cookie, sending requests in any order
TwoChatData   == { [message |-> MsgAdd], [message |-> MsgHitWall] }
TwoOutcomes   == { [ok |-> TRUE, text |-> PlainText] }
TwoSwitchData == { [spark |-> "sage_elementary"], [spark |-> "teacher_admin"] }

ChatTwo(k) == ChatWith(k, TwoChatData, TwoOutcomes, MaxTurns)

SwitchSparkTwo(k) == SwitchSparkWith(k, TwoSwitchData)

NextTwo ==
    \/ \E k \in AllKeys : ChatTwo(k)
    \/ \E k \in AllKeys : SwitchSparkTwo(k)
    \/ \E k \in AllKeys : ResetChat(k)

SpecTwo == Init /\ [][NextTwo]_vars

\* ------------------------------------------------- one long conversation
LongChatData == { [message |-> MsgAdd], [message |-> MsgHitWall] }

ChatLong(k) == ChatWith(k, LongChatData, Outcomes, MaxLongTurns)

NextLong == \E k \in SpecKeys : ChatLong(k)

SpecLong == Init /\ [][NextLong]_vars

\* ------------------------------- generated text with and without anchor
\* the service succeeds: plain text, empty text, a bare anchor phrase, or
\* text that already ends with the anchor phrase of some persona
AnchorOutcomes ==
    { [ok |-> TRUE, text |-> PlainText], [ok |-> TRUE, text |-> <<>>] }
    \cup { [ok |-> TRUE, text |-> SPARKS[p].anchor_phrase] : p \in SparkIds }
    \cup { [ok |-> TRUE,
            text |-> PlainText \o <<"\n\n">> \o SPARKS[p].anchor_phrase] :
           p \in SparkIds }

AnchorSwitchData == { [spark |-> p] : p \in SparkIds }

ChatAnchor(k) == ChatWith(k, LongChatData, AnchorOutcomes, MaxAnchorTurns)

SwitchSparkAnchor(k) == SwitchSparkWith(k, AnchorSwitchData)

NextAnchor ==
    \/ \E k \in SpecKeys : ChatAnchor(k)
    \/ \E k \in SpecKeys : SwitchSparkAnchor(k)

SpecAnchor == Init /\ [][NextAnchor]_vars

\* ------------------------------------------- the safety evaluator alone
EvalAlphabet == {"h", "i", "t", "H", "I", "T", "s", "a", "d", "S"}

\* all strings over alphabet of length n
RECURSIVE Strings(_, _)
Strings(alphabet, n) ==
    IF n = 0 THEN { <<>> }
    ELSE { Append(w, c) : w \in Strings(alphabet, n - 1), c \in alphabet }

MsgSadHit == <<"S","a","d"," ","h","i","t">>

\* the messages the evaluator is applied to
EvalMessages ==
    UNION { Strings(EvalAlphabet, n) : n \in 0..MaxLen }
      \cup { MsgAdd, MsgHitWall, MsgSadDay, MsgSadHit }

\* a sequence in reverse order
Reverse(seq) == [i \in 1..Len(seq) |-> seq[Len(seq) + 1 - i]]

Quiet ==
    /\ session = [k \in AllKeys |-> EmptyDict]
    /\ nextId = 1
    /\ now = 0
    /\ turns = [k \in AllKeys |-> 0]
    /\ retired = [k \in AllKeys |-> {}]
    /\ discarded = [k \in AllKeys |-> NotPending]
    /\ spent = 0
    /\ routings = [k \in AllKeys |-> 0]
    /\ inflight = [r \in Requests |-> Idle]

InitEval ==
    /\ Quiet
    /\ \E m \in EvalMessages, p \in SparkIds :
         last = [op |-> "input", message |-> m, current_spark |-> p]

\* check_safety_triggers applied to the drawn input; loop_reversed is the
\* loop of the evaluator run over the keyword list in reverse order
Evaluate ==
    /\ last.op = "input"
    /\ last' = [ op |-> "eval", message |-> last.message,
                 current_spark |-> last.current_spark,
                 result |-> check_safety_triggers(last.message,
                                                  last.current_spark),
                 loop_reversed |->
                   trigger_loop(
                     Reverse(SPARKS["sage_elementary"].safety_triggers),
                     lower(last.message), 1) ]
    /\ UNCHANGED <<session, nextId, now, turns, retired, discarded, spent,
                   routings, inflight>>

NextEval == Evaluate

SpecEval == InitEval /\ [][NextEval]_vars

\* ------------------------------------- overlapping requests of one client
\* The Flask session is the signed cookie of the client (app.secret_key,
\* line 20): a request carries the cookie the client holds when it sends the
\* request, the handler works on the session decoded from that cookie, and
\* the response carries the session the handler left, which the client
\* stores when the response arrives.  A client that sends a second /chat
\* before the response to the first has arrived (sendMessage does not wait,
\* lines 511-560) has two requests in flight that carry the same cookie.
RaceChatData   == { [message |-> MsgAdd], [message |-> MsgHitWall] }
RaceSwitchData == { [spark |-> "sage_elementary"], [spark |-> "teacher_admin"] }

\* the client has not yet sent any of the requests that overlap
NoneInFlight == \A r \in Requests : inflight[r].stage = "idle"

\* request r has been sent and its response has not arrived
InFlight(r) == inflight[r].stage \in {"sent", "handled"}

\* a /chat request answered before the client sends anything else
ChatRace(k) ==
    /\ NoneInFlight
    /\ ChatWith(k, RaceChatData, Outcomes, MaxRaceTurns)

\* a /switch_spark request answered before the client sends anything else
SwitchSparkRace(k) ==
    /\ NoneInFlight
    /\ SwitchSparkWith(k, RaceSwitchData)

\* client k sends /chat request r with the cookie it holds; overlaps tells
\* whether another request of the client is in flight at that moment
SendChat(r, k) ==
    /\ inflight[r].stage = "idle"
    /\ \A q \in Requests : q < r => inflight[q].stage # "idle"
    /\ \E data \in RaceChatData :
         inflight' = [inflight EXCEPT ![r] =
                        [ stage    |-> "sent",
                          key      |-> k,
                          data     |-> data,
                          cookie   |-> session[k],
                          overlaps |-> \E q \in Requests : InFlight(q) ]]
    /\ UNCHANGED <<session, nextId, now, turns, retired, discarded, spent,
                   routings, last>>

\* the server runs chat for request r on the session decoded from the
\* cookie of the request
HandleChat(r) ==
    /\ inflight[r].stage = "sent"
    /\ ~HasSession(inflight[r].cookie) => nextId <= MaxIds
    /\ spent < MaxRaceTurns
    /\ \E outcome \in Outcomes :
         LET out == chat_handler(inflight[r].cookie, inflight[r].data,
                                 outcome, nextId, now)
         IN  /\ inflight' = [inflight EXCEPT ![r] =
                              [ stage    |-> "handled",
                                key      |-> @.key,
                                data     |-> @.data,
                                cookie   |-> @.cookie,
                                overlaps |-> @.overlaps,
                                outcome  |-> outcome,
                                out      |-> out ]]
             /\ now' = out.clock
             /\ spent' = spent + (IF out.completed THEN 1 ELSE 0)
    /\ nextId' = IF HasSession(inflight[r].cookie) THEN nextId
                 ELSE nextId + 1
    /\ UNCHANGED <<session, turns, retired, discarded, routings, last>>

\* the response to request r arrives and the client stores its cookie
ReceiveChat(r) ==
    /\ inflight[r].stage = "handled"
    /\ session' = save_session(session, inflight[r].key,
                               inflight[r].out.session)
    /\ inflight' = [inflight EXCEPT ![r] =
                     [ stage    |-> "done",
                       key      |-> @.key,
                       data     |-> @.data,
                       cookie   |-> @.cookie,
                       overlaps |-> @.overlaps,
                       outcome  |-> @.outcome,
                       out      |-> @.out ]]
    /\ discarded' = [discarded EXCEPT ![inflight[r].key] = NotPending]
    /\ UNCHANGED <<nextId, now, turns, retired, spent, routings, last>>

NextRace ==
    \/ \E k \in SpecKeys : ChatRace(k)
    \/ \E k \in SpecKeys : SwitchSparkRace(k)
    \/ \E r \in Requests, k \in SpecKeys : SendChat(r, k)
    \/ \E r \in Requests : HandleChat(r)
    \/ \E r \in Requests : ReceiveChat(r)

SpecRace == Init /\ [][NextRace]_vars

\* ============================================================ properties
\* the message of the last /chat request
LastMessage == dict_get(last.data, "message", <<>>)

\* the session state get_session_data gave the last /chat or /admin request
LastData == last.out.session_data

\* the message contains a registered trigger keyword (literally)
ContainsTrigger(m) ==
    \E i \in 1..Len(SafetyTriggers) : str_in(SafetyTriggers[i], m)

\* the session of the client of the last request, as it is now
LastSession == session[last.key]

\* ---------------------------------------------------------------------- C1
\* C1: a /chat turn whose message contains a trigger keyword, taken while the
\* active persona is sage_elementary, leaves the active persona guardian and
\* the escalation log exactly one record longer.
C1_TriggerInTutorEscalatesOnce ==
    ( /\ last.op = "chat"
      /\ LastData["current_spark"] = "sage_elementary"
      /\ ContainsTrigger(LastMessage) )
    => /\ LastSession["current_spark"] = "guardian"
       /\ Len(LastSession["safety_alerts"])
            = Len(LastData["safety_alerts"]) + 1

C1_Witness ==
    /\ last.op = "chat"
    /\ LastData["current_spark"] = "sage_elementary"
    /\ LastMessage = MsgHitWall
    /\ LastSession["current_spark"] = "guardian"
    /\ Len(LastSession["safety_alerts"]) = 1

C3_TriggerAnsweredByGuardian ==
    ( /\ last.op = "chat"
      /\ ContainsTrigger(LastMessage) )
    => /\ last.out.ai.called
       /\ last.out.ai.messages[1]
            = [role |-> "system", content |-> SPARKS["guardian"].role]

C3_Witness ==
    /\ last.op = "chat"
    /\ ContainsTrigger(LastMessage)
    /\ LastData["current_spark"] = "teacher_admin"
    /\ last.out.ai.called
    /\ last.out.ai.messages[1].content = SPARKS["guardian"].role

\* the persona id asked for by the last /switch_spark request
RequestedSpark == last.data["spark"]

\* the active persona of a session, "absent" when the session has none
ActivePersona(sess) == dict_get(sess, "current_spark", "absent")

\* a dict without one of its keys
Without(d, key) == [f \in DOMAIN d \ {key} |-> d[f]]

\* ---------------------------------------------------------------------- C4
\* C4: a /switch_spark request whose persona id is not registered leaves the
\* active persona as it was and reports a failure to the caller.
C4_UnknownSwitchRejected ==
    ( /\ last.op = "switch"
      /\ "spark" \in DOMAIN last.data
      /\ RequestedSpark \notin SparkIds )
    => /\ ActivePersona(LastSession) = ActivePersona(last.pre)
       /\ last.out.response.status # 200

\* ---------------------------------------------------------------------- C5
\* C5: in every reachable state the active persona of every session is a key
\* of the persona registry.
C5_ActivePersonaRegistered ==
    \A k \in AllKeys :
        "current_spark" \in DOMAIN session[k]
            => session[k]["current_spark"] \in SparkIds

\* ---------------------------------------------------------------------- C6
\* C6: a /chat turn always returns a usable reply and never fails, in every
\* reachable session state and whatever the generation service does.
C6_ChatNeverFails ==
    last.op = "chat"
    => /\ last.out.response.status = 200
       /\ Len(last.out.response.response) > 0

\* ---------------------------------------------------------------------- C7
\* the persona that handled the last /chat turn
HandlingSpark == last.out.response.current_spark

\* the last /chat turn called the generation service and the call failed
GenerationFailed ==
    /\ last.op = "chat"
    /\ last.out.ai.called
    /\ ~last.outcome.ok

\* C7 as stated: when the generation call fails in a turn handled by persona
\* P, the reply ends with P's anchor phrase.
C7_FallbackEndsWithAnchor ==
    GenerationFailed
    => endswith(last.out.response.response,
                SPARKS[HandlingSpark].anchor_phrase)

\* C7 as amended: when the generation call fails in a turn handled by persona
\* P, the reply ends with P's signature, the dash followed by P's display
\* name, and not with P's anchor phrase.
C7_FallbackEndsWithName ==
    GenerationFailed
    => /\ endswith(last.out.response.response,
                   <<"--">> \o SPARKS[HandlingSpark].name)
       /\ ~endswith(last.out.response.response,
                    SPARKS[HandlingSpark].anchor_phrase)

C7_Witness ==
    /\ GenerationFailed
    /\ HandlingSpark = "guardian"
    /\ last.out.response.routing_occurred
    /\ endswith(last.out.response.response, <<"--", "Guardian">>)

\* ---------------------------------------------------------------------- C8
\* s is a prefix of t
IsPrefix(s, t) ==
    /\ Len(s) <= Len(t)
    /\ \A i \in 1..Len(s) : s[i] = t[i]

\* C8: a session on which k /chat turns have completed since its creation has
\* a conversation history of length 2k, and no request other than /reset
\* removes, moves or changes an entry recorded before it.
C8_HistoryLengthAndAppendOnly ==
    /\ \A k \in AllKeys :
         HasSession(session[k])
           => Len(session[k]["conversation_history"]) = 2 * turns[k]
    /\ ( /\ last.op \in {"chat", "switch", "admin"}
         /\ HasSession(last.pre) )
       => /\ HasSession(LastSession)
          /\ IsPrefix(last.pre["conversation_history"],
                      LastSession["conversation_history"])

C8_Witness ==
    /\ last.op = "chat"
    /\ turns[last.key] = 2
    /\ Len(last.pre["conversation_history"]) = 2
    /\ Len(LastSession["conversation_history"]) = 4
    /\ Len(LastSession["safety_alerts"]) = 1
    /\ LastSession["current_spark"] = "teacher_admin"

\* ---------------------------------------------------------------------- C9
\* C9: the first /chat or /admin request after a /reset gets from
\* get_session_data a session whose identifier is none of the identifiers
\* discarded before, whose history and escalation log are empty and whose
\* active persona is sage_elementary.
C9_FreshSessionAfterReset ==
    ( /\ last.op \in {"chat", "admin"}
      /\ last.after_reset.pending )
    => /\ LastData["session_id"] \notin retired[last.key]
       /\ LastData["conversation_history"] = <<>>
       /\ LastData["safety_alerts"] = <<>>
       /\ LastData["current_spark"] = "sage_elementary"

C9_Witness ==
    /\ last.op = "chat"
    /\ last.after_reset.pending
    /\ last.after_reset.had_id
    /\ last.after_reset.in_crisis
    /\ last.after_reset.escalations > 0
    /\ retired[last.key] # {}
    /\ LastData["session_id"] \notin retired[last.key]
    /\ LastData["current_spark"] = "sage_elementary"

\* --------------------------------------------------------------------- C10
\* C10: a /switch_spark request to a registered persona id changes the
\* active persona and nothing else of the session: history, escalation log,
\* session identifier and creation timestamp stay as they were.
C10_SwitchChangesOnlyPersona ==
    ( /\ last.op = "switch"
      /\ "spark" \in DOMAIN last.data
      /\ RequestedSpark \in SparkIds )
    => /\ LastSession["current_spark"] = RequestedSpark
       /\ Without(LastSession, "current_spark")
            = Without(last.pre, "current_spark")

C10_Witness ==
    /\ last.op = "switch"
    /\ "spark" \in DOMAIN last.data
    /\ RequestedSpark = "guardian"
    /\ HasSession(last.pre)
    /\ last.pre["current_spark"] = "sage_elementary"
    /\ Len(LastSession["conversation_history"]) = 2
    /\ LastSession["safety_alerts"] = <<>>
    /\ LastSession["current_spark"] = "guardian"

\* --------------------------------------------------------------------- C11
\* two characters are the same letter, whatever their case
SameLetter(c, d) ==
    \/ c = d
    \/ \E n \in 1..Len(UpperChars) :
         {c, d} = {UpperChars[n], LowerChars[n]}

\* keyword t occurs in message m at position p, case ignored
OccursAt(t, m, p) ==
    /\ p + Len(t) - 1 <= Len(m)
    /\ \A j \in 1..Len(t) : SameLetter(m[p + j - 1], t[j])

\* some registered trigger keyword occurs in m, case ignored
KeywordOccurs(m) ==
    \E i \in 1..Len(SafetyTriggers) :
        \E p \in 1..Len(m) : OccursAt(SafetyTriggers[i], m, p)

\* C11: a /switch_spark request to a registered id P that is the first
\* contact of a client, or follows a /reset, creates the session with P
\* active: the next /chat turn with a message without trigger keyword is
\* handled by P and reports P.
C11_SwitchCreatesSession ==
    ( /\ last.op = "chat"
      /\ ~HasSession(last.pre)
      /\ ActivePersona(last.pre) \in SparkIds
      /\ ~KeywordOccurs(LastMessage) )
    => /\ last.out.response.status = 200
       /\ last.out.response.current_spark = ActivePersona(last.pre)
       /\ LastSession["current_spark"] = ActivePersona(last.pre)
       /\ last.out.ai.messages[1].content
            = SPARKS[ActivePersona(last.pre)].role

\* --------------------------------------------------------------------- C12
\* C12: a /chat turn leaves the active persona as it was or moves it to
\* guardian; in particular it never moves a session out of guardian.
C12_ChatOnlyMovesToCrisis ==
    ( /\ last.op = "chat"
      /\ "current_spark" \in DOMAIN last.pre )
    => LastSession["current_spark"]
         \in {last.pre["current_spark"], "guardian"}

\* --------------------------------------------------------------------- C13
\* C13: the response of a /chat turn agrees with the session after the turn:
\* same active persona, routing flag set exactly when this turn appended an
\* alert, routing notice non-empty exactly when the flag is set, and an
\* alert count equal to the length of the session's alert log.
C13_ResponseMatchesSession ==
    ( /\ last.op = "chat"
      /\ last.out.response.status = 200 )
    => LET r == last.out.response
       IN  /\ r.current_spark = LastSession["current_spark"]
           /\ r.routing_occurred
                <=> ( Len(LastSession["safety_alerts"])
                        = Len(LastData["safety_alerts"]) + 1 )
           /\ ~r.routing_occurred
                => LastSession["safety_alerts"] = LastData["safety_alerts"]
           /\ (r.routing_message # <<>>) <=> r.routing_occurred
           /\ r.safety_alerts = Len(LastSession["safety_alerts"])

C13_Witness ==
    /\ last.op = "chat"
    /\ last.out.response.status = 200
    /\ last.out.response.routing_occurred
    /\ last.out.response.routing_message = RoutingNotice
    /\ last.out.response.safety_alerts = 2
    /\ Len(LastSession["safety_alerts"]) = 2
    /\ last.out.response.current_spark = "guardian"

\* --------------------------------------------------------------------- C14
\* C14: a request of one client never changes the session of another client.
C14_SessionsIsolated ==
    last.op # "none"
    => \A k \in AllKeys \ {last.key} : session[k] = last.before[k]

C14_Witness ==
    /\ last.op = "chat"
    /\ last.key = "A"
    /\ last.out.response.routing_occurred
    /\ session["A"]["current_spark"] = "guardian"
    /\ HasSession(session["B"])
    /\ session["B"]["current_spark"] = "teacher_admin"
    /\ Len(session["B"]["conversation_history"]) = 2
    /\ session["B"]["safety_alerts"] = <<>>
    /\ session["B"] = last.before["B"]

\* --------------------------------------------------------------------- C15
\* C15: a /chat turn with an empty or missing message is rejected or a no-op:
\* history, alert log and active persona stay as they were and the
\* generation service is not called.
C15_EmptyMessageIsNoOp ==
    ( /\ last.op = "chat"
      /\ LastMessage = <<>> )
    => /\ ~last.out.ai.called
       /\ LastSession["conversation_history"]
            = LastData["conversation_history"]
       /\ LastSession["safety_alerts"] = LastData["safety_alerts"]
       /\ LastSession["current_spark"] = LastData["current_spark"]

\* --------------------------------------------------------------------- C16
\* the last /chat turn moved the session to guardian and logged one alert
Escalated ==
    /\ LastSession["current_spark"] = "guardian"
    /\ Len(LastSession["safety_alerts"])
         = Len(LastData["safety_alerts"]) + 1

\* the last /chat turn left persona and alert log as they were
NotEscalated ==
    /\ LastSession["current_spark"] = LastData["current_spark"]
    /\ LastSession["safety_alerts"] = LastData["safety_alerts"]

\* C16 as stated: no /chat turn taken while teacher_admin is active moves the
\* session to guardian or appends an alert.
C16_AdminNeverEscalates ==
    ( /\ last.op = "chat"
      /\ LastData["current_spark"] = "teacher_admin" )
    => NotEscalated

\* C16 as amended: a /chat turn taken while teacher_admin is active moves the
\* session to guardian and appends one alert exactly when the message
\* contains one of the tutor's trigger keywords, case ignored; otherwise it
\* leaves persona and alert log as they were.
C16_AdminEscalatesOnKeyword ==
    ( /\ last.op = "chat"
      /\ LastData["current_spark"] = "teacher_admin" )
    => IF KeywordOccurs(LastMessage) THEN Escalated ELSE NotEscalated

C16_Witness ==
    /\ last.op = "chat"
    /\ LastData["current_spark"] = "teacher_admin"
    /\ LastMessage = MsgHitWall
    /\ Escalated
    /\ last.out.response.routing_occurred

C18_ShouldEscalate ==
    last.op = "eval"
    => /\ last.current_spark = "guardian" => last.result = FALSE
       /\ last.current_spark # "guardian"
            => /\ last.result <=> KeywordOccurs(last.message)
               /\ last.result <=> last.loop_reversed
       /\ last.message = <<>> => last.result = FALSE

C18_Witness ==
    /\ last.op = "eval"
    /\ last.current_spark = "teacher_admin"
    /\ last.message = <<"H","i","T">>
    /\ last.result = TRUE
    /\ last.loop_reversed = TRUE

\* --------------------------------------------------------------------- C19
\* C19: the request sent to the generation service is the handling persona's
\* directive, then the last min(6, n) entries of the history as stored before
\* the turn, in order, then the new user message once; the stored history
\* keeps all its n entries.
C19_RequestIsBoundedWindow ==
    ( /\ last.op = "chat"
      /\ last.out.ai.called )
    => LET h == LastData["conversation_history"]
           n == Len(h)
           w == IF n < 6 THEN n ELSE 6
           sent == last.out.ai.messages
       IN  /\ Len(sent) = w + 2
           /\ sent[1] = [ role |-> "system",
                          content |-> SPARKS[HandlingSpark].role ]
           /\ \A i \in 1..w : sent[1 + i] = h[n - w + i]
           /\ sent[w + 2] = [role |-> "user", content |-> LastMessage]
           /\ Len(LastSession["conversation_history"]) = n + 2
           /\ IsPrefix(h, LastSession["conversation_history"])

C19_Witness ==
    /\ last.op = "chat"
    /\ last.out.ai.called
    /\ Len(LastData["conversation_history"]) = 8
    /\ Len(last.out.ai.messages) = 8
    /\ last.out.ai.messages[2] = LastData["conversation_history"][3]
    /\ last.out.ai.messages[2] # LastData["conversation_history"][1]
    /\ Len(LastSession["conversation_history"]) = 10

\* --------------------------------------------------------------------- C20
\* sequence s ends with sequence a
HasSuffix(s, a) ==
    /\ Len(a) <= Len(s)
    /\ SubSeq(s, Len(s) - Len(a) + 1, Len(s)) = a

\* C20: when the generation call succeeds, the reply ends with the anchor
\* phrase of the persona that handled the turn (guardian on an escalation
\* turn): it is the generated text itself when that already ends with the
\* anchor phrase, else the text with the anchor phrase appended, and the
\* anchor step applied to the reply returns the reply.
C20_ReplyEndsWithAnchorOnce ==
    ( /\ last.op = "chat"
      /\ last.out.ai.called
      /\ last.outcome.ok )
    => LET reply  == last.out.response.response
           text   == last.outcome.text
           anchor == SPARKS[HandlingSpark].anchor_phrase
       IN  /\ last.out.response.routing_occurred
                => HandlingSpark = "guardian"
           /\ HasSuffix(reply, anchor)
           /\ HasSuffix(text, anchor) => reply = text
           /\ ~HasSuffix(text, anchor)
                => reply = text \o <<"\n\n">> \o anchor
           /\ add_anchor(reply, SPARKS[HandlingSpark]) = reply

C20_Witness ==
    /\ last.op = "chat"
    /\ last.out.ai.called
    /\ last.outcome.ok
    /\ last.out.response.routing_occurred
    /\ LastData["current_spark"] = "teacher_admin"
    /\ last.outcome.text = PlainText \o <<"\n\n">> \o GuardianAnchor
    /\ last.out.response.response = last.outcome.text

\* --------------------------------------------------------------------- C21
\* the entries of h are in turn a user entry and a persona entry
Alternates(h) ==
    \A i \in 1..Len(h) :
        h[i].role = IF i % 2 = 1 THEN "user" ELSE "assistant"

\* C21: every stored history has even length and alternates user entry,
\* persona entry; each completed /chat turn appends to the history it found
\* first its message and then the reply it returned, and nothing else.
C21_HistoryAlternates ==
    /\ \A k \in AllKeys :
         HasSession(session[k])
           => /\ Len(session[k]["conversation_history"]) % 2 = 0
              /\ Alternates(session[k]["conversation_history"])
    /\ ( /\ last.op = "chat"
         /\ last.out.completed )
       => LET h == LastSession["conversation_history"]
              n == Len(LastData["conversation_history"])
          IN  /\ Len(h) = n + 2
              /\ IsPrefix(LastData["conversation_history"], h)
              /\ h[n + 1] = [role |-> "user", content |-> LastMessage]
              /\ h[n + 2] = [ role |-> "assistant",
                              content |-> last.out.response.response ]

C21_Witness ==
    /\ last.op = "chat"
    /\ last.out.completed
    /\ ~last.outcome.ok
    /\ LastMessage = MsgAdd
    /\ Len(LastSession["conversation_history"]) = 4
    /\ LastSession["conversation_history"][1].content = MsgHitWall
    /\ LastSession["conversation_history"][3].content = MsgAdd
    /\ LastSession["conversation_history"][4].content
         = last.out.response.response

\* --------------------------------------------------------------------- C22
\* the alert log of a session, empty when the session has none
AlertLog(sess) == dict_get(sess, "safety_alerts", <<>>)

\* the last request was a /chat turn that routed the session to Guardian
Routed ==
    /\ last.op = "chat"
    /\ last.out.completed
    /\ last.out.response.routing_occurred

\* C22: the alert log of every session is as long as the number of /chat
\* turns that routed the session since it was created; a /chat, /switch_spark
\* or /admin request keeps every alert recorded before it, in place, and the
\* log grows only in a /chat turn that routes, by one alert whose trigger is
\* that turn's message.
C22_AlertLogAppendOnly ==
    /\ \A k \in AllKeys :
         HasSession(session[k])
           => Len(session[k]["safety_alerts"]) = routings[k]
    /\ last.op \in {"chat", "switch", "admin"}
       => LET a0 == IF last.op = "switch" THEN AlertLog(last.pre)
                    ELSE LastData["safety_alerts"]
              a1 == AlertLog(LastSession)
          IN  /\ IsPrefix(a0, a1)
              /\ Len(a1) = Len(a0) + (IF Routed THEN 1 ELSE 0)
              /\ Routed
                   => /\ a1[Len(a1)].trigger = LastMessage
                      /\ a1[Len(a1)].action = "Routed to Guardian"
                      /\ LastSession["current_spark"] = "guardian"

C22_Witness ==
    /\ Routed
    /\ HasSession(last.pre)
    /\ last.pre["current_spark"] = "sage_elementary"
    /\ Len(last.pre["safety_alerts"]) = 1
    /\ Len(LastSession["safety_alerts"]) = 2
    /\ routings[last.key] = 2
    /\ LastSession["safety_alerts"][1] = last.pre["safety_alerts"][1]
    /\ LastSession["safety_alerts"][2].trigger = MsgHitWall

C24_EscalationSurvivesFailure ==
    ( /\ last.op = "chat"
      /\ LastData["current_spark"] # "guardian"
      /\ KeywordOccurs(LastMessage)
      /\ ~last.outcome.ok )
    => /\ last.out.completed
       /\ last.out.ai.called
       /\ LastSession["current_spark"] = "guardian"
       /\ Len(LastSession["safety_alerts"])
            = Len(LastData["safety_alerts"]) + 1
       /\ last.out.response.routing_occurred
       /\ LastSession["conversation_history"]
            = LastData["conversation_history"]
              \o << [role |-> "user", content |-> LastMessage],
                    [ role |-> "assistant",
                      content |-> fallback_reply(SPARKS["guardian"]) ] >>

C24_Witness ==
    /\ last.op = "chat"
    /\ ~last.outcome.ok
    /\ LastData["current_spark"] = "teacher_admin"
    /\ LastMessage = MsgHitWall
    /\ Len(LastData["conversation_history"]) = 2
    /\ LastSession["current_spark"] = "guardian"
    /\ Len(LastSession["safety_alerts"]) = 1
    /\ Len(LastSession["conversation_history"]) = 4
    /\ LastSession["conversation_history"][4].content
         = fallback_reply(SPARKS["guardian"])

\* --------------------------------------------------------------------- C25
\* the responses to both requests have arrived, the requests overlapped and
\* both turns completed
BothDoneOverlapped ==
    /\ \A r \in Requests : inflight[r].stage = "done"
    /\ \E r \in Requests : inflight[r].overlaps
    /\ \A r \in Requests : inflight[r].out.completed

\* history h holds at position i the message of request r and then the
\* reply returned for it
TurnAt(h, i, r) ==
    /\ i + 1 <= Len(h)
    /\ h[i] = [ role |-> "user",
                content |-> dict_get(inflight[r].data, "message", <<>>) ]
    /\ h[i + 1] = [ role |-> "assistant",
                    content |-> inflight[r].out.response.response ]

\* C25: when two /chat requests of one client overlap, then after both
\* responses have arrived the history of the session holds the entries of
\* both turns (at different places), and if either turn routed the session,
\* the active persona is guardian and the alert log holds that turn's alert.
C25_NoLostUpdate ==
    BothDoneOverlapped
    => LET sess == session[inflight[1].key]
           h == sess["conversation_history"]
       IN  /\ \E i, j \in 1..Len(h) :
                 /\ i # j
                 /\ TurnAt(h, i, 1)
                 /\ TurnAt(h, j, 2)
           /\ \A r \in Requests :
                 inflight[r].out.response.routing_occurred
                   => /\ sess["current_spark"] = "guardian"
                      /\ \E n \in 1..Len(sess["safety_alerts"]) :
                            sess["safety_alerts"][n]
                              = inflight[r].out.session["safety_alerts"][
                                  Len(inflight[r].out.session["safety_alerts"])]

====
